---- MODULE Spec2Model ----
(***************************************************************************)
(* Spaced-repetition progress and derived statistics of fwords-backend.    *)
(*                                                                         *)
(* State: the WordsProgress and LanguageProgress tables, the word catalog, *)
(* the current date, and the requests in flight.  Percentages are kept in  *)
(* hundredths (DecimalField with two decimal places): 10000 is 100.00.     *)
(* A row's primary key is represented by the row's unique triple           *)
(* (user, word, target_language) for WordsProgress and (user, language)    *)
(* for LanguageProgress; interval and next_review are not modelled.        *)
(***************************************************************************)
EXTENDS Integers, FiniteSets, Sequences, TLC

VARIABLES
    words,      \* Word table: id -> [language, difficulty_level, active]
    wp,         \* WordsProgress table: set of rows
    lp,         \* LanguageProgress table: set of rows
    qp,         \* QuizProgress table: set of rows
    today,      \* timezone.now().date(), counted in days
    reqs,       \* requests in flight: process -> its position and locals
    accounts,   \* User table: user -> [is_active, is_email_verified]
    tokens,     \* EmailActivationToken table: set of rows
    now,        \* timezone.now() of the account endpoints, counted in hours
    last        \* the request that completed last (history)

vars == <<words, wp, lp, qp, today, reqs, accounts, tokens, now, last>>

None == "None"

\* ------------------------------------------------------------------ bounds
MaxDay == 1
MaxCount == 1
MaxRows == 2
MaxBatch == 2
MaxQuiz == 2
MaxStatDay == 70
MaxTokens == 2
MaxHour == 36

\* ------------------------------------------------------------- the catalog
Users == {"u1", "u2"}
Langs == {"en", "de"}
WordIds == {"w1", "w2", "w3"}
Procs == {"p1", "p2"}

\* the users and a user who has a native language and no active language
Callers == Users \cup {"u3"}

\* native_language / active_language of the users
UserProfile ==
    [u \in Callers |->
        CASE u = "u1" -> [native_language |-> "de", active_language |-> "en"]
          [] u = "u3" -> [native_language |-> "de", active_language |-> None]
          [] OTHER -> [native_language |-> None, active_language |-> None]]

\* Language.enabled
LanguageEnabled == [l \in Langs \cup {"fr"} |-> l \in Langs]

STATUS_CHOICES == {"new", "learning", "learned", "mastered"}

LEVEL_CHOICES == {"A1", "A2", "B1", "B2", "C1", "C2"}

DifficultyLevel ==
    {"beginner", "elementary", "intermediate", "upper_intermediate",
     "advanced", "proficient"}

LevelRank ==
    [l \in LEVEL_CHOICES |->
        CASE l = "A1" -> 1 [] l = "A2" -> 2 [] l = "B1" -> 3
          [] l = "B2" -> 4 [] l = "C1" -> 5 [] l = "C2" -> 6]

\* mutant: B1 loses the elementary tier
DIFFICULTY_TO_LEVEL_MAP_NotCumulative(level) ==
    CASE level = "A1" -> {"beginner"}
      [] level = "A2" -> {"beginner", "elementary"}
      [] level = "B1" -> {"beginner", "intermediate"}
      [] level = "B2" -> {"beginner", "elementary", "intermediate",
                          "upper_intermediate"}
      [] level = "C1" -> {"beginner", "elementary", "intermediate",
                          "upper_intermediate", "advanced"}
      [] level = "C2" -> DifficultyLevel
      [] OTHER -> {"beginner"}

DIFFICULTY_TO_LEVEL_MAP(level) ==
    CASE level = "A1" -> {"beginner"}
      [] level = "A2" -> {"beginner", "elementary"}
      [] level = "B1" -> {"beginner", "elementary", "intermediate"}
      [] level = "B2" -> {"beginner", "elementary", "intermediate",
                          "upper_intermediate"}
      [] level = "C1" -> {"beginner", "elementary", "intermediate",
                          "upper_intermediate", "advanced"}
      [] level = "C2" -> DifficultyLevel
      [] OTHER -> {"beginner"}

\* ------------------------------------------------------------ request data
Has(data, f) == f \in DOMAIN data

\* a request body with no fields
EmptyData == [f \in {} |-> None]

Get(data, f, default) == IF Has(data, f) THEN data[f] ELSE default

\* ----------------------------------------------------------- recalculation
\* Word.objects.filter(language, difficulty_level__in, active=True).count()
total_available_words(ws, language, level) ==
    Cardinality({w \in DOMAIN ws :
        /\ ws[w].language = language
        /\ ws[w].difficulty_level \in DIFFICULTY_TO_LEVEL_MAP(level)
        /\ ws[w].active})

\* WordsProgress.objects.filter(user, target_language, status__in).count()
learned_mastered_count(wpS, user, language) ==
    Cardinality({r \in wpS :
        /\ r.user = user
        /\ r.target_language = language
        /\ r.status \in {"learned", "mastered"}})

\* round(n / d * 100, 2) in hundredths, ties to even
round2(n, d) ==
    LET q == (n * 10000) \div d
        rem == (n * 10000) % d
    IN  IF 2 * rem > d THEN q + 1
        ELSE IF 2 * rem = d THEN q + (q % 2)
        ELSE q

Min(a, b) == IF a <= b THEN a ELSE b

learned_percentage(cnt, total) ==
    IF total > 0 THEN Min(10000, round2(cnt, total)) ELSE 0

LPRows(lpS, user, language) ==
    {r \in lpS : r.user = user /\ r.language = language}

\* mutant: the row is created with another level
LanguageProgress_get_or_create_LevelA2(lpS, user, language) ==
    IF LPRows(lpS, user, language) # {} THEN lpS
    ELSE lpS \cup {[user |-> user, language |-> language, level |-> "A2",
                    learned_words |-> 0, learned_words_count |-> 0,
                    learned_phrases |-> 0, learned_phrases_count |-> 0]}

\* LanguageProgress.objects.get_or_create(user, language, defaults={'level': 'A1'})
LanguageProgress_get_or_create(lpS, user, language) ==
    IF LPRows(lpS, user, language) # {} THEN lpS
    ELSE lpS \cup {[user |-> user, language |-> language, level |-> "A1",
                    learned_words |-> 0, learned_words_count |-> 0,
                    learned_phrases |-> 0, learned_phrases_count |-> 0]}

\* mutant: the count is incremented instead of recomputed
update_language_progress_Increment(wpS, lpS, ws, user, language) ==
    LET lp1 == LanguageProgress_get_or_create(lpS, user, language)
        row == CHOOSE r \in LPRows(lp1, user, language) : TRUE
        cnt == row.learned_words_count + 1
        total == total_available_words(ws, language, row.level)
    IN  (lp1 \ {row}) \cup
            {[row EXCEPT !.learned_words_count = cnt,
                         !.learned_words = learned_percentage(cnt, total)]}

\* update_language_progress(user, target_language): the LanguageProgress table
\* after the recalculation
update_language_progress(wpS, lpS, ws, user, language) ==
    LET lp1 == LanguageProgress_get_or_create(lpS, user, language)
        row == CHOOSE r \in LPRows(lp1, user, language) : TRUE
        total == total_available_words(ws, language, row.level)
        cnt == learned_mastered_count(wpS, user, language)
    IN  IF Cardinality(LPRows(lp1, user, language)) > 1
        THEN lpS    \* MultipleObjectsReturned, caught and logged
        ELSE (lp1 \ {row}) \cup
                {[row EXCEPT !.learned_words_count = cnt,
                             !.learned_words = learned_percentage(cnt, total)]}

\* post_save of WordsProgress: words_progress_updated
words_progress_updated(wpS, lpS, ws, instance) ==
    update_language_progress(wpS, lpS, ws, instance.user, instance.target_language)

\* post_delete of WordsProgress: words_progress_deleted
words_progress_deleted(wpS, lpS, ws, instance) ==
    update_language_progress(wpS, lpS, ws, instance.user, instance.target_language)

\* mutant: the handler does not look at _updating_from_signal
language_progress_level_updated_calls_IgnoresFlag(created, updating_from_signal) ==
    ~created

\* language_progress_level_updated: whether the handler calls
\* update_language_progress
language_progress_level_updated_calls(created, updating_from_signal) ==
    IF updating_from_signal THEN FALSE ELSE ~created

\* post_save of LanguageProgress: language_progress_level_updated
language_progress_level_updated(wpS, lpS, ws, instance, created, updating_from_signal) ==
    IF language_progress_level_updated_calls(created, updating_from_signal)
    THEN update_language_progress(wpS, lpS, ws, instance.user, instance.language)
    ELSE lpS

\* ------------------------------------------------------ WordsProgress rows
NoDate == -1

pk(r) == <<r.user, r.word, r.target_language>>

NoKey == <<None, None, None>>

\* mutant: the date is stamped only when the row reaches learned or mastered
set_date_learned_OnStatusChange(olds, instance, day) ==
    IF olds = {} THEN [instance EXCEPT !.date_learned = day]
    ELSE IF /\ instance.status \in {"learned", "mastered"}
            /\ \A o \in olds : o.status # instance.status
         THEN [instance EXCEPT !.date_learned = day]
         ELSE instance

\* pre_save of WordsProgress: set_date_learned.  olds is empty for a new
\* instance (no pk) and holds the stored row otherwise.
set_date_learned(olds, instance, day) ==
    IF olds = {} THEN [instance EXCEPT !.date_learned = day]
    ELSE [instance EXCEPT !.date_learned = day]

\* mutant: the table has no unique constraint
WordsProgressUniqueViolation_NoConstraint(wpS, olds, instance) == FALSE

\* unique_together = ('user', 'word', 'target_language')
WordsProgressUniqueViolation(wpS, olds, instance) ==
    \E r \in wpS \ olds : pk(r) = pk(instance)

\* instance.save(): pre_save, the write, post_save.  An IntegrityError leaves
\* the tables as they were.
WordsProgress_save(wpS, lpS, ws, olds, instance, day) ==
    LET inst1 == set_date_learned(olds, instance, day)
        wp1 == (wpS \ olds) \cup {inst1}
    IN  IF WordsProgressUniqueViolation(wpS, olds, inst1)
        THEN [ok |-> FALSE, wp |-> wpS, lp |-> lpS, key |-> NoKey]
        ELSE [ok |-> TRUE, wp |-> wp1,
              lp |-> words_progress_updated(wp1, lpS, ws, inst1),
              key |-> pk(inst1)]

\* instance.delete(): the delete, post_delete
WordsProgress_delete(wpS, lpS, ws, instance) ==
    LET wp1 == wpS \ {instance}
    IN  [ok |-> TRUE, wp |-> wp1,
         lp |-> words_progress_deleted(wp1, lpS, ws, instance),
         key |-> pk(instance)]

\* ------------------------------------------------- WordsProgressSerializer
validate_word_id(ws, value) == value \in DOMAIN ws /\ ws[value].active

validate_target_language_id(value) ==
    value \in DOMAIN LanguageEnabled /\ LanguageEnabled[value]

\* the fields' validators without the choices of status
WordsProgressFieldsValid_AnyStatus(data) ==
    /\ Has(data, "review_count") => data.review_count >= 0
    /\ Has(data, "correct_count") => data.correct_count >= 0

\* the model fields' own validators
WordsProgressFieldsValid(data) ==
    /\ Has(data, "status") => data.status \in STATUS_CHOICES
    /\ Has(data, "review_count") => data.review_count >= 0
    /\ Has(data, "correct_count") => data.correct_count >= 0

\* mutant: the word's language is not compared with the target language
validate_NoLanguageCheck(ws, user, attrs) ==
    (Has(attrs, "word_id") /\ Has(attrs, "target_language_id")) =>
        ~ (/\ UserProfile[user].active_language # None
           /\ ws[attrs.word_id].language = UserProfile[user].native_language)

\* mutant: the native language is refused whatever the active language
validate_NativeAlways(ws, user, attrs) ==
    (Has(attrs, "word_id") /\ Has(attrs, "target_language_id")) =>
        /\ ws[attrs.word_id].language = attrs.target_language_id
        /\ ws[attrs.word_id].language # UserProfile[user].native_language

\* WordsProgressSerializer.validate
validate(ws, user, attrs) ==
    (Has(attrs, "word_id") /\ Has(attrs, "target_language_id")) =>
        /\ ws[attrs.word_id].language = attrs.target_language_id
        /\ ~ (/\ UserProfile[user].active_language # None
              /\ ws[attrs.word_id].language = UserProfile[user].native_language)

WordsProgressSerializer_is_valid(ws, user, data, partial) ==
    /\ ~partial => (Has(data, "word_id") /\ Has(data, "target_language_id"))
    /\ Has(data, "word_id") => validate_word_id(ws, data.word_id)
    /\ Has(data, "target_language_id") =>
           validate_target_language_id(data.target_language_id)
    /\ WordsProgressFieldsValid(data)
    /\ validate(ws, user, data)

\* the writable plain fields of validated_data set on an instance
SetFields(instance, data) ==
    [instance EXCEPT
        !.status = Get(data, "status", @),
        !.review_count = Get(data, "review_count", @),
        !.correct_count = Get(data, "correct_count", @),
        !.date_learned = Get(data, "date_learned", @)]

WordsProgressDefaults(user, word, language) ==
    [user |-> user, word |-> word, target_language |-> language,
     status |-> "new", review_count |-> 0, correct_count |-> 0,
     date_learned |-> NoDate]

\* WordsProgressSerializer.create
WordsProgressSerializer_create(wpS, lpS, ws, user, data, day) ==
    LET existing == {r \in wpS : pk(r) = <<user, data.word_id, data.target_language_id>>}
        created == SetFields(
            WordsProgressDefaults(user, data.word_id, data.target_language_id), data)
    IN  IF existing = {}
        THEN WordsProgress_save(wpS, lpS, ws, {}, created, day)
        ELSE LET progress == CHOOSE r \in existing : TRUE
             IN  WordsProgress_save(wpS, lpS, ws, {progress},
                                    SetFields(progress, data), day)

\* WordsProgressSerializer.update
WordsProgressSerializer_update(wpS, lpS, ws, instance, data, day) ==
    LET i1 == [instance EXCEPT
                  !.word = Get(data, "word_id", @),
                  !.target_language = Get(data, "target_language_id", @)]
    IN  WordsProgress_save(wpS, lpS, ws, {instance}, SetFields(i1, data), day)

\* ---------------------------------------------- LanguageProgressSerializer
\* DecimalField(max_digits=5, decimal_places=2), in hundredths
DecimalMax == 99999

LanguageProgressSerializer_is_valid(data, partial) ==
    /\ ~partial => Has(data, "language_id")
    /\ Has(data, "language_id") => validate_target_language_id(data.language_id)
    /\ Has(data, "level") => data.level \in LEVEL_CHOICES
    /\ Has(data, "learned_words") =>
           (data.learned_words >= -DecimalMax /\ data.learned_words <= DecimalMax)
    /\ Has(data, "learned_phrases") =>
           (data.learned_phrases >= -DecimalMax /\ data.learned_phrases <= DecimalMax)

\* unique_together = ('user', 'language')
LanguageProgressUniqueViolation(lpS, olds, instance) ==
    \E r \in lpS \ olds : r.user = instance.user /\ r.language = instance.language

\* progress.save() of a LanguageProgress from the API: the write, post_save
LanguageProgress_save(wpS, lpS, ws, olds, instance, created) ==
    LET lp1 == (lpS \ olds) \cup {instance}
    IN  IF LanguageProgressUniqueViolation(lpS, olds, instance)
        THEN [ok |-> FALSE, lp |-> lpS]
        ELSE [ok |-> TRUE,
              lp |-> language_progress_level_updated(wpS, lp1, ws, instance,
                                                     created, FALSE)]

SetLanguageProgressFields(instance, data) ==
    [instance EXCEPT
        !.level = Get(data, "level", @),
        !.learned_words = Get(data, "learned_words", @),
        !.learned_phrases = Get(data, "learned_phrases", @)]

LanguageProgressDefaults(user, language) ==
    [user |-> user, language |-> language, level |-> "A1",
     learned_words |-> 0, learned_words_count |-> 0,
     learned_phrases |-> 0, learned_phrases_count |-> 0]

\* LanguageProgressSerializer.create
LanguageProgressSerializer_create(wpS, lpS, ws, user, data) ==
    LET existing == LPRows(lpS, user, data.language_id)
    IN  IF existing = {}
        THEN LanguageProgress_save(wpS, lpS, ws, {},
                 SetLanguageProgressFields(
                     LanguageProgressDefaults(user, data.language_id), data),
                 TRUE)
        ELSE LET progress == CHOOSE r \in existing : TRUE
             IN  LanguageProgress_save(wpS, lpS, ws, {progress},
                     SetLanguageProgressFields(progress, data), FALSE)

\* ModelSerializer.update of a LanguageProgress (PUT / PATCH language/<pk>/)
LanguageProgressSerializer_update(wpS, lpS, ws, instance, data) ==
    LET i1 == [instance EXCEPT !.language = Get(data, "language_id", @)]
    IN  LanguageProgress_save(wpS, lpS, ws, {instance},
                              SetLanguageProgressFields(i1, data), FALSE)

\* ------------------------------------------------------------------- state
\* a process with no request; inst is the instance a request holds in memory
Idle ==
    [pc |-> "idle", op |-> None, inst |-> {}, level |-> None, cnt |-> 0, pct |-> 0,
     created |-> FALSE, runs |-> 0, failed |-> FALSE, data |-> EmptyData]

NoResponse == [updated_count |-> 0, total_requested |-> 0, errors |-> 0]

Completed(op, user, ok, key, old_lang, lang) ==
    [op |-> op, user |-> user, ok |-> ok, key |-> key,
     old_lang |-> old_lang, lang |-> lang, response |-> NoResponse]

Rejected == Completed("rejected", None, FALSE, NoKey, None, None)

InitWords ==
    [w \in WordIds |->
        CASE w = "w1" -> [language |-> "en", difficulty_level |-> "beginner",
                          active |-> TRUE]
          [] w = "w2" -> [language |-> "en", difficulty_level |-> "intermediate",
                          active |-> TRUE]
          [] w = "w3" -> [language |-> "de", difficulty_level |-> "beginner",
                          active |-> TRUE]]

\* the callers of the progress endpoints are logged in: active and verified
LoggedIn == [u \in Users |-> [is_active |-> TRUE, is_email_verified |-> TRUE]]

Init ==
    /\ words = InitWords
    /\ wp = {}
    /\ lp = {}
    /\ qp = {}
    /\ today = 0
    /\ reqs = [p \in Procs |-> Idle]
    /\ accounts = LoggedIn
    /\ tokens = {}
    /\ now = 0
    /\ last = Completed("init", None, TRUE, NoKey, None, None)

\* ------------------------------------------------- WordsProgress endpoints
\* POST progress/words/
WordsProgressListCreateView_post(u, data) ==
    LET valid == WordsProgressSerializer_is_valid(words, u, data, FALSE)
        res == WordsProgressSerializer_create(wp, lp, words, u, data, today)
    IN  /\ (valid /\ <<u, data.word_id, data.target_language_id>> \notin {pk(r) : r \in wp})
               => Cardinality(wp) < MaxRows
        /\ IF valid
           THEN /\ wp' = res.wp
                /\ lp' = res.lp
                /\ last' = Completed("wp_create", u, res.ok, res.key,
                                     data.target_language_id, data.target_language_id)
           ELSE /\ UNCHANGED <<wp, lp>>
                /\ last' = Rejected
        /\ UNCHANGED <<words, qp, today, reqs, accounts, tokens, now>>

\* PUT / PATCH progress/words/<pk>/ ; the queryset holds the caller's rows
WordsProgressDetailView_patch(u, instance, data, partial) ==
    LET valid == WordsProgressSerializer_is_valid(words, u, data, partial)
        res == WordsProgressSerializer_update(wp, lp, words, instance, data, today)
    IN  /\ instance \in wp
        /\ IF instance.user = u /\ valid
           THEN /\ wp' = res.wp
                /\ lp' = res.lp
                /\ last' = Completed("wp_update", u, res.ok, res.key,
                                     instance.target_language,
                                     Get(data, "target_language_id", instance.target_language))
           ELSE /\ UNCHANGED <<wp, lp>>
                /\ last' = Rejected
        /\ UNCHANGED <<words, qp, today, reqs, accounts, tokens, now>>

\* mutant: the queryset of the detail view is not filtered by user
WordsProgressDetailView_delete_Unscoped(u, instance) ==
    LET res == WordsProgress_delete(wp, lp, words, instance)
    IN  /\ instance \in wp
        /\ wp' = res.wp
        /\ lp' = res.lp
        /\ last' = Completed("wp_delete", u, TRUE, res.key,
                             instance.target_language, instance.target_language)
        /\ UNCHANGED <<words, qp, today, reqs, accounts, tokens, now>>

\* DELETE progress/words/<pk>/
WordsProgressDetailView_delete(u, instance) ==
    LET res == WordsProgress_delete(wp, lp, words, instance)
    IN  /\ instance \in wp
        /\ IF instance.user = u
           THEN /\ wp' = res.wp
                /\ lp' = res.lp
                /\ last' = Completed("wp_delete", u, TRUE, res.key,
                                     instance.target_language, instance.target_language)
           ELSE /\ UNCHANGED <<wp, lp>>
                /\ last' = Rejected
        /\ UNCHANGED <<words, qp, today, reqs, accounts, tokens, now>>

\* ---------------------------------------------- LanguageProgress endpoints
\* POST progress/language/
LanguageProgressListCreateView_post(u, data) ==
    LET valid == LanguageProgressSerializer_is_valid(data, FALSE)
        res == LanguageProgressSerializer_create(wp, lp, words, u, data)
    IN  /\ IF valid
           THEN /\ lp' = res.lp
                /\ last' = Completed("lp_create", u, res.ok, NoKey,
                                     data.language_id, data.language_id)
           ELSE /\ UNCHANGED lp
                /\ last' = Rejected
        /\ UNCHANGED <<words, wp, qp, today, reqs, accounts, tokens, now>>

\* PUT / PATCH progress/language/<pk>/
LanguageProgressDetailView_patch(u, instance, data, partial) ==
    LET valid == LanguageProgressSerializer_is_valid(data, partial)
        res == LanguageProgressSerializer_update(wp, lp, words, instance, data)
    IN  /\ instance \in lp
        /\ IF instance.user = u /\ valid
           THEN /\ lp' = res.lp
                /\ last' = Completed("lp_update", u, res.ok, NoKey,
                                     instance.language,
                                     Get(data, "language_id", instance.language))
           ELSE /\ UNCHANGED lp
                /\ last' = Rejected
        /\ UNCHANGED <<words, wp, qp, today, reqs, accounts, tokens, now>>

\* DELETE progress/language/<pk>/
LanguageProgressDetailView_delete(u, instance) ==
    /\ instance \in lp
    /\ IF instance.user = u
       THEN /\ lp' = lp \ {instance}
            /\ last' = Completed("lp_delete", u, TRUE, NoKey,
                                 instance.language, instance.language)
       ELSE /\ UNCHANGED lp
            /\ last' = Rejected
    /\ UNCHANGED <<words, wp, qp, today, reqs, accounts, tokens, now>>

\* ------------------------------------------------- QuizProgress endpoints
\* the validation without the comparison of correct answers and questions
QuizProgressSerializer_is_valid_NoUpperCheck(data) ==
    /\ Has(data, "language_id") /\ validate_target_language_id(data.language_id)
    /\ Has(data, "total_questions") /\ data.total_questions >= 0
    /\ Has(data, "correct_answers") /\ data.correct_answers >= 0
    /\ ~ (data.total_questions <= 0)
    /\ ~ (data.correct_answers < 0)

\* QuizProgressSerializer: the fields' validators and validate
QuizProgressSerializer_is_valid(data) ==
    /\ Has(data, "language_id") /\ validate_target_language_id(data.language_id)
    /\ Has(data, "total_questions") /\ data.total_questions >= 0
    /\ Has(data, "correct_answers") /\ data.correct_answers >= 0
    /\ ~ (data.total_questions <= 0)
    /\ ~ (data.correct_answers < 0)
    /\ ~ (data.correct_answers > data.total_questions)

\* QuizProgressSerializer.create: a new row for the caller
QuizProgressSerializer_create(qpS, user, data) ==
    qpS \cup {[id |-> Cardinality(qpS) + 1, user |-> user,
               language |-> data.language_id,
               total_questions |-> data.total_questions,
               correct_answers |-> data.correct_answers]}

\* POST progress/quiz/
QuizProgressListCreateView_post(u, data) ==
    /\ Cardinality(qp) < MaxQuiz
    /\ IF QuizProgressSerializer_is_valid(data)
       THEN /\ qp' = QuizProgressSerializer_create(qp, u, data)
            /\ last' = Completed("quiz_create", u, TRUE, NoKey,
                                 data.language_id, data.language_id)
       ELSE /\ UNCHANGED qp
            /\ last' = Rejected
    /\ UNCHANGED <<words, wp, lp, today, reqs, accounts, tokens, now>>

\* Sum of field f over a set of rows
RECURSIVE Sum(_, _)
Sum(rows, f) ==
    IF rows = {} THEN 0
    ELSE LET r == CHOOSE x \in rows : TRUE
         IN  r[f] + Sum(rows \ {r}, f)

\* the rows of every user, optionally of one language
QuizStatsQueryset_AllUsers(qpS, user, language_filter) ==
    {r \in qpS : language_filter # None => r.language = language_filter}

\* QuizProgress.objects.filter(user=user), then the optional language filter
QuizStatsQueryset(qpS, user, language_filter) ==
    {r \in qpS :
        /\ r.user = user
        /\ language_filter # None => r.language = language_filter}

\* values('language').annotate(Sum, Sum, Count) and the response entry of a group
QuizStatsEntry(queryset, language) ==
    LET group == {r \in queryset : r.language = language}
        total_questions == Sum(group, "total_questions")
        total_correct == Sum(group, "correct_answers")
    IN  [language |-> language,
         total_questions |-> total_questions,
         average_accuracy |-> IF total_questions > 0
                              THEN round2(total_correct, total_questions)
                              ELSE 0,
         quiz_count |-> Cardinality(group)]

\* GET progress/quiz-stats/
QuizStatsView_get(u, language_filter) ==
    LET queryset == QuizStatsQueryset(qp, u, language_filter)
        quiz_stats == {QuizStatsEntry(queryset, l) : l \in {r.language : r \in queryset}}
    IN  /\ last' = [Completed("quiz_stats", u, TRUE, NoKey, language_filter,
                              language_filter)
                    EXCEPT !.response = [quiz_stats |-> quiz_stats]]
        /\ UNCHANGED <<words, wp, lp, qp, today, reqs, accounts, tokens, now>>

\* ------------------------------------------- WordsProgressBulkUpdateView
\* the attributes of a Word instance
WordAttributes ==
    {"id", "word", "language", "transcription", "part_of_speech", "gender",
     "difficulty_level", "audio_url", "active", "created_at", "updated_at",
     "get_translations", "get_translations_to_language",
     "get_translations_from_language", "get_all_translations_dict"}

\* word_text = progress.word.text raises AttributeError
word_text_raises == "text" \notin WordAttributes

Failed(st) == [st EXCEPT !.errors = @ + 1]

\* one turn of the loop over updates; st = [wp, lp, updated_count, errors]
BulkUpdateEntry(st, u, update_data, ws, day) ==
    IF ~ Has(update_data, "id") THEN Failed(st)
    ELSE LET found == {r \in st.wp : pk(r) = update_data.id /\ r.user = u}
         IN  IF found = {} THEN Failed(st)
             ELSE IF word_text_raises THEN Failed(st)
             ELSE LET progress == CHOOSE r \in found : TRUE
                      p1 == [progress EXCEPT
                                !.review_count = @ + 1,
                                !.correct_count =
                                    IF Get(update_data, "correct", FALSE)
                                    THEN @ + 1 ELSE @,
                                !.status = Get(update_data, "status", @)]
                      p2 == IF /\ p1.status \in {"learned", "mastered"}
                               /\ p1.date_learned = NoDate
                            THEN [p1 EXCEPT !.date_learned = day]
                            ELSE p1
                      res == WordsProgress_save(st.wp, st.lp, ws, {progress}, p2, day)
                  IN  IF res.ok
                      THEN [st EXCEPT !.wp = res.wp, !.lp = res.lp,
                                      !.updated_count = @ + 1]
                      ELSE Failed(st)

RECURSIVE BulkUpdateLoop(_, _, _, _, _)
BulkUpdateLoop(st, u, updates, ws, day) ==
    IF updates = <<>> THEN st
    ELSE BulkUpdateLoop(BulkUpdateEntry(st, u, Head(updates), ws, day),
                        u, Tail(updates), ws, day)

\* the entries of updates that name the row with primary key k
EntriesFor(updates, k) ==
    {i \in 1..Len(updates) : Has(updates[i], "id") /\ updates[i].id = k}

\* POST progress/words/bulk-update/
WordsProgressBulkUpdateView_post(u, updates) ==
    LET st == BulkUpdateLoop(
                  [wp |-> wp, lp |-> lp, updated_count |-> 0, errors |-> 0],
                  u, updates, words, today)
    IN  /\ \A r \in wp :
               r.review_count + Cardinality(EntriesFor(updates, pk(r))) <= MaxCount
        /\ IF updates = <<>>
           THEN /\ UNCHANGED <<wp, lp>>
                /\ last' = Rejected
           ELSE /\ wp' = st.wp
                /\ lp' = st.lp
                /\ last' = [Completed("bulk_update", u, TRUE, NoKey, None, None)
                               EXCEPT !.response =
                                   [updated_count |-> st.updated_count,
                                    total_requested |-> Len(updates),
                                    errors |-> st.errors]]
        /\ UNCHANGED <<words, qp, today, reqs, accounts, tokens, now>>

\* --------------------------------------------------- WordsLearnedStatsView
\* datetime.date: a date is its number of days since 2024-11-01, the months
\* the model looks at are those of MonthTable
MonthTable ==
    << [year |-> 2024, month |-> 11, days |-> 30],
       [year |-> 2024, month |-> 12, days |-> 31],
       [year |-> 2025, month |-> 1, days |-> 31],
       [year |-> 2025, month |-> 2, days |-> 28],
       [year |-> 2025, month |-> 3, days |-> 31] >>

RECURSIVE MonthStart(_)
MonthStart(i) == IF i = 1 THEN 0 ELSE MonthStart(i - 1) + MonthTable[i - 1].days

MonthOf(d) ==
    CHOOSE i \in 1..Len(MonthTable) :
        MonthStart(i) <= d /\ d < MonthStart(i) + MonthTable[i].days

date_year(d) == MonthTable[MonthOf(d)].year

date_month(d) == MonthTable[MonthOf(d)].month

date_day(d) == d - MonthStart(MonthOf(d)) + 1

\* date.weekday(): Monday is 0; 2024-11-01 is a Friday
weekday(d) == (d + 4) % 7

\* date(year, 1, 1); 2024 has 366 days
January1(year) == IF year = 2025 THEN MonthStart(3) ELSE MonthStart(3) - 366

\* today.replace(day=1)
replace_day_1(d) == d - (date_day(d) - 1)

\* today.replace(month=1, day=1)
replace_month_1_day_1(d) == January1(date_year(d))

\* mutant: the week starts on Sunday
start_of_week_Sunday(d) == d - ((weekday(d) + 1) % 7)

\* today - timedelta(days=today.weekday())
start_of_week(d) == d - weekday(d)

\* str.lower() on the period values requests carry
Lower(str) ==
    CASE str = "Week" -> "week"
      [] str = "ALL" -> "all"
      [] OTHER -> str

\* mutant: the lower end of the window is excluded
date_filter_Exclusive(queryset, start_date, end_date) ==
    {r \in queryset :
        /\ start_date # NoDate => r.date_learned > start_date
        /\ r.date_learned <= end_date}

\* filter(date_learned__gte=start_date) if start_date, then
\* filter(date_learned__lte=end_date)
date_filter(queryset, start_date, end_date) ==
    {r \in queryset :
        /\ start_date # NoDate => r.date_learned >= start_date
        /\ r.date_learned <= end_date}

\* the response data of WordsLearnedStatsView.get for a valid period, computed
\* from the table wpS on the date day
WordsLearnedStatsView_response(wpS, day, u, period_param, language_filter) ==
    LET period == Lower(period_param)
        start_date == CASE period = "today" -> day
                        [] period = "week" -> start_of_week(day)
                        [] period = "month" -> replace_day_1(day)
                        [] period = "year" -> replace_month_1_day_1(day)
                        [] OTHER -> NoDate
        end_date == day
        base == {r \in wpS : r.user = u /\ r.date_learned # NoDate}
        dated == date_filter(base, start_date, end_date)
        queryset == IF language_filter # None
                    THEN {r \in dated : r.target_language = language_filter}
                    ELSE dated
        count(st) == Cardinality({r \in queryset : r.status = st})
    IN  [period |-> period,
         start_date |-> start_date,
         end_date |-> end_date,
         words_new |-> count("new"),
         words_learning |-> count("learning"),
         words_learned |-> count("learned"),
         words_mastered |-> count("mastered"),
         total_words |-> count("learned") + count("mastered")]

\* GET progress/words-stats/?period=&language=
WordsLearnedStatsView_get(u, period_param, language_filter) ==
    /\ IF Lower(period_param) \in {"today", "week", "month", "year", "all"}
       THEN last' = [Completed("stats", u, TRUE, NoKey, None, language_filter)
                        EXCEPT !.response =
                            WordsLearnedStatsView_response(wp, today, u, period_param,
                                                           language_filter)]
       ELSE last' = Rejected
    /\ UNCHANGED <<words, wp, lp, qp, today, reqs, accounts, tokens, now>>

\* mutant: the rows of every user
words_learned_today_AllUsers(wpS, day, user) ==
    {r \in wpS : r.date_learned = day /\ r.status \in {"learned", "mastered"}}

\* WordsProgress.objects.filter(user=user, date_learned=today,
\* status__in=['learned', 'mastered'])
words_learned_today(wpS, day, user) ==
    {r \in wpS :
        /\ r.user = user
        /\ r.date_learned = day
        /\ r.status \in {"learned", "mastered"}}

\* the response data of WordsLearnedTodayView.get
WordsLearnedTodayView_response(wpS, day, user) ==
    LET queryset == words_learned_today(wpS, day, user)
        learned_count == Cardinality({r \in queryset : r.status = "learned"})
        mastered_count == Cardinality({r \in queryset : r.status = "mastered"})
    IN  [date |-> day,
         words_learned_today |-> learned_count,
         words_mastered_today |-> mastered_count,
         total_learned_today |-> learned_count + mastered_count]

\* GET progress/words-learned-today/ ; the debug loop reads progress.word.word
WordsLearnedTodayView_get(u) ==
    /\ IF "word" \in WordAttributes
       THEN last' = [Completed("today", u, TRUE, NoKey, None, None)
                        EXCEPT !.response = WordsLearnedTodayView_response(wp, today, u)]
       ELSE last' = Rejected
    /\ UNCHANGED <<words, wp, lp, qp, today, reqs, accounts, tokens, now>>

\* ------------------------------------------------------------- environment
\* PATCH words/<pk>/ : any authenticated user may write the catalog
WordViewSet_partial_update(w, data) ==
    /\ Has(data, "difficulty_level") => data.difficulty_level \in DifficultyLevel
    /\ words' = [words EXCEPT
                    ![w].active = Get(data, "active", @),
                    ![w].difficulty_level = Get(data, "difficulty_level", @)]
    /\ words' # words
    /\ last' = Completed("word_update", None, TRUE, NoKey, None, None)
    /\ UNCHANGED <<wp, lp, qp, today, reqs, accounts, tokens, now>>

\* midnight passes
Tick ==
    /\ today < MaxDay
    /\ today' = today + 1
    /\ last' = Completed("tick", None, TRUE, NoKey, None, None)
    /\ UNCHANGED <<words, wp, lp, qp, reqs, accounts, tokens, now>>

\* ------------------------------------------------------- email activation
ACTIVATION_TOKEN_EXPIRY_HOURS == 24

\* mutant: a token never expires
is_expired_Never(activation_token, t) == FALSE

\* EmailActivationToken.is_expired at time t
is_expired(activation_token, t) ==
    t > activation_token.created_at + ACTIVATION_TOKEN_EXPIRY_HOURS

\* EmailActivationToken.objects.create(user=user): a fresh token, unused
EmailActivationToken_create(tokS, user, t) ==
    tokS \cup {[token |-> Cardinality(tokS) + 1, user |-> user,
                created_at |-> t, is_used |-> FALSE]}

Answered(op, user, ok, token) ==
    [Completed(op, user, ok, NoKey, None, None) EXCEPT !.response = [token |-> token]]

\* POST register/ : an inactive user and an activation token
UserRegistrationView_post(u) ==
    /\ Cardinality(tokens) < MaxTokens
    /\ IF u \notin DOMAIN accounts
       THEN /\ accounts' = [x \in DOMAIN accounts \cup {u} |->
                               IF x = u
                               THEN [is_active |-> FALSE, is_email_verified |-> FALSE]
                               ELSE accounts[x]]
            /\ tokens' = EmailActivationToken_create(tokens, u, now)
            /\ last' = Answered("register", u, TRUE, Cardinality(tokens) + 1)
       ELSE /\ UNCHANGED <<accounts, tokens>>
            /\ last' = Rejected
    /\ UNCHANGED <<words, wp, lp, qp, today, reqs, now>>

\* POST resend-activation/ : another token for a user not yet verified
ResendActivationView_post(u) ==
    /\ Cardinality(tokens) < MaxTokens
    /\ IF u \in DOMAIN accounts /\ ~ accounts[u].is_email_verified
       THEN /\ tokens' = EmailActivationToken_create(tokens, u, now)
            /\ last' = Answered("resend", u, TRUE, Cardinality(tokens) + 1)
       ELSE /\ UNCHANGED tokens
            /\ last' = Rejected
    /\ UNCHANGED <<words, wp, lp, qp, today, reqs, accounts, now>>

\* GET activate/<uuid:token>/
activate_email(token) ==
    LET found == {a \in tokens : a.token = token /\ ~ a.is_used}
    IN  /\ IF found = {}
           THEN /\ UNCHANGED <<accounts, tokens>>
                /\ last' = Answered("activate", None, FALSE, token)
           ELSE LET activation_token == CHOOSE a \in found : TRUE
                    user == activation_token.user
                IN  IF is_expired(activation_token, now)
                    THEN /\ UNCHANGED <<accounts, tokens>>
                         /\ last' = Answered("activate", None, FALSE, token)
                    ELSE /\ accounts' = [accounts EXCEPT
                                            ![user].is_active = TRUE,
                                            ![user].is_email_verified = TRUE]
                         /\ tokens' = (tokens \ {activation_token}) \cup
                                          {[activation_token EXCEPT !.is_used = TRUE]}
                         /\ last' = Answered("activate", user, TRUE, token)
        /\ UNCHANGED <<words, wp, lp, qp, today, reqs, now>>

\* half a day passes
ClockTick ==
    /\ now + 12 <= MaxHour
    /\ now' = now + 12
    /\ last' = Completed("tick", None, TRUE, NoKey, None, None)
    /\ UNCHANGED <<words, wp, lp, qp, today, reqs, accounts, tokens>>

\* ------------------------------------------------- the aggregation machine
\* Requests one at a time: WordsProgress create / update / delete,
\* LanguageProgress create / update / delete, catalog writes.
AggUsers == {"u1"}

AggStatus == {"new", "learned", "mastered"}

AggLevels == {"A1", "B1"}

AggLearnedWords == {15000}

AggWordsProgressCreate ==
    [word_id : WordIds, target_language_id : Langs]
    \cup [word_id : WordIds, target_language_id : Langs, status : AggStatus \ {"new"}]

AggPatchWords == {"w1", "w2"}

AggWordsProgressPatch ==
    [status : AggStatus]
    \cup [target_language_id : Langs]
    \cup [word_id : AggPatchWords]

AggLanguageProgressCreate ==
    [language_id : Langs]
    \cup [language_id : Langs, level : AggLevels]
    \cup [language_id : Langs, learned_words : AggLearnedWords]

AggLanguageProgressPatch ==
    {EmptyData}
    \cup [level : AggLevels]
    \cup [learned_words : AggLearnedWords]
    \cup [language_id : Langs]

Next ==
    \/ \E u \in AggUsers, data \in AggWordsProgressCreate :
           WordsProgressListCreateView_post(u, data)
    \/ \E u \in AggUsers, r \in wp, data \in AggWordsProgressPatch :
           WordsProgressDetailView_patch(u, r, data, TRUE)
    \/ \E u \in AggUsers, r \in wp : WordsProgressDetailView_delete(u, r)
    \/ \E u \in AggUsers, data \in AggLanguageProgressCreate :
           LanguageProgressListCreateView_post(u, data)
    \/ \E u \in AggUsers, r \in lp, data \in AggLanguageProgressPatch :
           LanguageProgressDetailView_patch(u, r, data, TRUE)
    \/ \E u \in AggUsers, r \in lp : LanguageProgressDetailView_delete(u, r)

Spec == Init /\ [][Next]_vars

\* ---------------------------------------------------- the catalog machine
\* Catalog writes and level changes: the denominator of the percentage.
CatUsers == {"u1"}

CatWords == {"w1", "w2"}

CatWordPatch == [active : BOOLEAN] \cup [difficulty_level : DifficultyLevel]

CatWordsProgressCreate ==
    [word_id : {"w1", "w3"}, target_language_id : {"en", "de", "fr"},
     status : {"learned"}]

CatLanguageProgressCreate == [language_id : {"en"}, level : LEVEL_CHOICES]

CatLanguageProgressPatch == [level : LEVEL_CHOICES]

NextCatalog ==
    \/ \E w \in CatWords, data \in CatWordPatch : WordViewSet_partial_update(w, data)
    \/ \E u \in CatUsers, data \in CatWordsProgressCreate :
           WordsProgressListCreateView_post(u, data)
    \/ \E u \in CatUsers, data \in CatLanguageProgressCreate :
           LanguageProgressListCreateView_post(u, data)
    \/ \E u \in CatUsers, r \in lp, data \in CatLanguageProgressPatch :
           LanguageProgressDetailView_patch(u, r, data, TRUE)

SpecCatalog == Init /\ [][NextCatalog]_vars

\* ----------------------------------------------------- the review machine
\* Counters and dates of WordsProgress rows: create, update, delete, bulk
\* review, and the passing of days.
RevUsers == {"u1"}

RevWords == {"w1"}

RevLangs == {"en"}

RevCounts == 0..MaxCount

RevDates == {NoDate} \cup (0..MaxDay)

RevStatus == {"learning", "learned", "mastered"}

RevCreate ==
    [word_id : RevWords, target_language_id : RevLangs]
    \cup [word_id : RevWords, target_language_id : RevLangs, status : RevStatus]
    \cup [word_id : RevWords, target_language_id : RevLangs,
          review_count : RevCounts, correct_count : RevCounts]
    \cup [word_id : RevWords, target_language_id : RevLangs, date_learned : RevDates]
    \cup [word_id : RevWords, target_language_id : RevLangs, correct : BOOLEAN]

RevPatch ==
    [status : RevStatus \cup {"new"}]
    \cup [review_count : RevCounts]
    \cup [correct_count : RevCounts]
    \cup [date_learned : RevDates]

\* the ids a bulk entry may name: the rows' and one that names no row
RevKeys == {<<u, w, l>> : u \in RevUsers, w \in RevWords, l \in RevLangs} \cup {NoKey}

RevEntries ==
    [id : RevKeys, correct : BOOLEAN]
    \cup [id : RevKeys, correct : BOOLEAN, status : {"learned"}]
    \cup [correct : BOOLEAN]

RevBatches == UNION {[1..n -> RevEntries] : n \in 1..MaxBatch}

NextReview ==
    \/ \E u \in RevUsers, data \in RevCreate : WordsProgressListCreateView_post(u, data)
    \/ \E u \in RevUsers, r \in wp, data \in RevPatch :
           WordsProgressDetailView_patch(u, r, data, TRUE)
    \/ \E u \in RevUsers, r \in wp : WordsProgressDetailView_delete(u, r)
    \/ \E u \in RevUsers, updates \in RevBatches :
           WordsProgressBulkUpdateView_post(u, updates)
    \/ Tick

SpecReview == Init /\ [][NextReview]_vars

\* ------------------------------------------------- the concurrent machine
\* Requests of several workers interleave at the statements they send to the
\* database: a WordsProgress create or status update, then the recalculation
\* (get_or_create of the LanguageProgress row, the two counts, the write).
ConcUsers == {"u1"}

ConcWords == {"w1", "w2"}

ConcLangs == {"en"}

ConcStatus == {"new", "learned"}

ConcCreate == [word_id : ConcWords, target_language_id : ConcLangs, status : ConcStatus]

ConcPatch == [status : ConcStatus]

\* PATCH progress/words/<pk>/ : get_object() and the fields set in memory
ConcPatchLoad(p, u, instance, data) ==
    /\ reqs[p].pc = "idle"
    /\ instance \in wp /\ instance.user = u
    /\ WordsProgressSerializer_is_valid(words, u, data, TRUE)
    /\ reqs' = [reqs EXCEPT ![p] =
                   [Idle EXCEPT !.pc = "loaded", !.op = "wp_update",
                                !.inst = {SetFields(instance, data)}]]
    /\ UNCHANGED <<words, wp, lp, qp, today, last, accounts, tokens, now>>

\* POST progress/words/ : get_or_create; a new row is inserted, an existing
\* one is held in memory with the new data
ConcCreateGet(p, u, data) ==
    LET existing == {r \in wp : pk(r) = <<u, data.word_id, data.target_language_id>>}
        created == set_date_learned({},
                       SetFields(WordsProgressDefaults(u, data.word_id,
                                                       data.target_language_id), data),
                       today)
    IN  /\ reqs[p].pc = "idle"
        /\ WordsProgressSerializer_is_valid(words, u, data, FALSE)
        /\ IF existing = {}
           THEN /\ wp' = wp \cup {created}
                /\ reqs' = [reqs EXCEPT ![p] =
                               [Idle EXCEPT !.pc = "saved", !.op = "wp_create",
                                            !.inst = {created}]]
           ELSE /\ wp' = wp
                /\ reqs' = [reqs EXCEPT ![p] =
                               [Idle EXCEPT !.pc = "loaded", !.op = "wp_create",
                                            !.inst = {SetFields(r, data) : r \in existing}]]
        /\ UNCHANGED <<words, lp, qp, today, last, accounts, tokens, now>>

\* instance.save(): pre_save, then the UPDATE of the row by primary key
ConcSave(p) ==
    /\ reqs[p].pc = "loaded"
    /\ \E instance \in reqs[p].inst :
           LET olds == {r \in wp : pk(r) = pk(instance)}
               inst1 == set_date_learned(olds, instance, today)
           IN  /\ wp' = (wp \ olds) \cup {inst1}
               /\ reqs' = [reqs EXCEPT ![p].pc = "saved", ![p].inst = {inst1}]
    /\ UNCHANGED <<words, lp, qp, today, last, accounts, tokens, now>>

\* update_language_progress: get_or_create of the LanguageProgress row
ConcGetOrCreate(p) ==
    /\ reqs[p].pc = "saved"
    /\ \E instance \in reqs[p].inst :
           /\ lp' = LanguageProgress_get_or_create(lp, instance.user,
                                                   instance.target_language)
           /\ \E row \in LPRows(lp', instance.user, instance.target_language) :
                  reqs' = [reqs EXCEPT ![p].pc = "got", ![p].level = row.level]
    /\ UNCHANGED <<words, wp, qp, today, last, accounts, tokens, now>>

\* update_language_progress: the two count queries and the percentage
ConcCount(p) ==
    /\ reqs[p].pc = "got"
    /\ \E instance \in reqs[p].inst :
           LET total == total_available_words(words, instance.target_language,
                                              reqs[p].level)
               cnt == learned_mastered_count(wp, instance.user,
                                             instance.target_language)
           IN  reqs' = [reqs EXCEPT ![p].pc = "counted", ![p].cnt = cnt,
                                    ![p].pct = learned_percentage(cnt, total)]
    /\ UNCHANGED <<words, wp, lp, qp, today, last, accounts, tokens, now>>

\* update_language_progress: save(update_fields=[learned_words,
\* learned_words_count, updated_at]); the request is answered
ConcWrite(p) ==
    /\ reqs[p].pc = "counted"
    /\ \E instance \in reqs[p].inst :
           /\ lp' = {IF r.user = instance.user /\ r.language = instance.target_language
                     THEN [r EXCEPT !.learned_words_count = reqs[p].cnt,
                                    !.learned_words = reqs[p].pct]
                     ELSE r : r \in lp}
           /\ last' = Completed(reqs[p].op, instance.user, TRUE, pk(instance),
                                instance.target_language, instance.target_language)
    /\ reqs' = [reqs EXCEPT ![p] = Idle]
    /\ UNCHANGED <<words, wp, qp, today, accounts, tokens, now>>

NextConc ==
    \/ \E p \in Procs, u \in ConcUsers, r \in wp, data \in ConcPatch :
           ConcPatchLoad(p, u, r, data)
    \/ \E p \in Procs, u \in ConcUsers, data \in ConcCreate : ConcCreateGet(p, u, data)
    \/ \E p \in Procs : ConcSave(p)
    \/ \E p \in Procs : ConcGetOrCreate(p)
    \/ \E p \in Procs : ConcCount(p)
    \/ \E p \in Procs : ConcWrite(p)

SpecConc == Init /\ [][NextConc]_vars

\* ----------------------------------------------------- the signal machine
\* One request at a time, followed through the signals its writes send:
\* post_save / post_delete of WordsProgress, post_save of LanguageProgress
\* (from the API, from get_or_create inside the recalculation, and from the
\* recalculation's own save), and the errors the recalculation may raise.
MaxRuns == 2

SigProcs == {"p1"}

SigUsers == {"u1"}

SigLevels == {"A1", "B1"}

SigLearnedPhrases == {2500}

SigLanguageProgressData ==
    [language_id : ConcLangs, level : SigLevels]
    \cup [language_id : ConcLangs, learned_phrases : SigLearnedPhrases]

\* mutant: the error leaves update_language_progress and the handlers
update_language_progress_except_Propagates(r) ==
    [r EXCEPT !.pc = "error", !.failed = TRUE]

\* the except clause of update_language_progress: the error is logged and the
\* function returns to the handler, which returns to the save
update_language_progress_except(r) == [r EXCEPT !.pc = "respond", !.failed = TRUE]

\* DELETE progress/words/<pk>/ : the row is deleted, post_delete is sent
SigWordsProgressDelete(p, u, instance) ==
    /\ reqs[p].pc = "idle"
    /\ instance \in wp /\ instance.user = u
    /\ wp' = wp \ {instance}
    /\ reqs' = [reqs EXCEPT ![p] =
                   [Idle EXCEPT !.pc = "saved", !.op = "wp_delete", !.inst = {instance}]]
    /\ UNCHANGED <<words, lp, qp, today, last, accounts, tokens, now>>

\* POST progress/language/ : get_or_create, and save() of an existing row;
\* post_save is sent with created set
SigLanguageProgressPost(p, u, data) ==
    LET existing == LPRows(lp, u, data.language_id)
        row == SetLanguageProgressFields(
                   LanguageProgressDefaults(u, data.language_id), data)
    IN  /\ reqs[p].pc = "idle"
        /\ LanguageProgressSerializer_is_valid(data, FALSE)
        /\ lp' = IF existing = {} THEN lp \cup {row}
                 ELSE (lp \ existing) \cup
                          {SetLanguageProgressFields(r, data) : r \in existing}
        /\ reqs' = [reqs EXCEPT ![p] =
                       [Idle EXCEPT !.pc = "lp_saved",
                                    !.op = IF existing = {} THEN "lp_create"
                                           ELSE "lp_update",
                                    !.created = (existing = {}),
                                    !.inst = {[user |-> u,
                                               target_language |-> data.language_id]}]]
        /\ UNCHANGED <<words, wp, qp, today, last, accounts, tokens, now>>

\* PATCH progress/language/<pk>/ : save() of the row, post_save is sent
SigLanguageProgressPatch(p, u, instance, data) ==
    /\ reqs[p].pc = "idle"
    /\ instance \in lp /\ instance.user = u
    /\ LanguageProgressSerializer_is_valid(data, TRUE)
    /\ lp' = (lp \ {instance}) \cup {SetLanguageProgressFields(instance, data)}
    /\ reqs' = [reqs EXCEPT ![p] =
                   [Idle EXCEPT !.pc = "lp_saved", !.op = "lp_update",
                                !.inst = {[user |-> u,
                                           target_language |-> instance.language]}]]
    /\ UNCHANGED <<words, wp, qp, today, last, accounts, tokens, now>>

\* a signal reaches its handler.  saved: words_progress_updated or
\* words_progress_deleted; the others: language_progress_level_updated for
\* the save of the API, of get_or_create, and of the recalculation itself.
SigDispatch(p) ==
    LET r == reqs[p]
        calls == CASE r.pc = "saved" -> TRUE
                   [] r.pc = "lp_saved" ->
                          language_progress_level_updated_calls(r.created, FALSE)
                   [] r.pc = "created_signal" ->
                          language_progress_level_updated_calls(TRUE, FALSE)
                   [] r.pc = "flagged_signal" ->
                          language_progress_level_updated_calls(FALSE, TRUE)
        returns == IF r.pc = "created_signal" THEN "got" ELSE "respond"
    IN  /\ r.pc \in {"saved", "lp_saved", "created_signal", "flagged_signal"}
        /\ calls => r.runs < MaxRuns
        /\ reqs' = [reqs EXCEPT ![p].pc = IF calls THEN "recalculate" ELSE returns,
                                ![p].runs = IF calls THEN @ + 1 ELSE @]
        /\ UNCHANGED <<words, wp, lp, qp, today, last, accounts, tokens, now>>

\* update_language_progress: get_or_create; a created row sends post_save
SigGetOrCreate(p) ==
    /\ reqs[p].pc = "recalculate"
    /\ \E instance \in reqs[p].inst :
           LET made == LPRows(lp, instance.user, instance.target_language) = {}
           IN  /\ lp' = LanguageProgress_get_or_create(lp, instance.user,
                                                       instance.target_language)
               /\ \E row \in LPRows(lp', instance.user, instance.target_language) :
                      reqs' = [reqs EXCEPT
                                  ![p].pc = IF made THEN "created_signal" ELSE "got",
                                  ![p].level = row.level]
    /\ UNCHANGED <<words, wp, qp, today, last, accounts, tokens, now>>

\* update_language_progress: the save with _updating_from_signal set sends
\* post_save
SigWrite(p) ==
    /\ reqs[p].pc = "counted"
    /\ \E instance \in reqs[p].inst :
           lp' = {IF r.user = instance.user /\ r.language = instance.target_language
                  THEN [r EXCEPT !.learned_words_count = reqs[p].cnt,
                                 !.learned_words = reqs[p].pct]
                  ELSE r : r \in lp}
    /\ reqs' = [reqs EXCEPT ![p].pc = "flagged_signal"]
    /\ UNCHANGED <<words, wp, qp, today, last, accounts, tokens, now>>

\* a statement of update_language_progress raises (the database fails)
SigRecalculateFails(p) ==
    /\ reqs[p].pc \in {"recalculate", "got", "counted"}
    /\ reqs' = [reqs EXCEPT ![p] = update_language_progress_except(@)]
    /\ UNCHANGED <<words, wp, lp, qp, today, last, accounts, tokens, now>>

\* the view answers; an exception that left the handlers is answered as a
\* server error
SigRespond(p) ==
    /\ reqs[p].pc \in {"respond", "error"}
    /\ \E instance \in reqs[p].inst :
           last' = Completed(reqs[p].op, instance.user, reqs[p].pc = "respond",
                             NoKey, instance.target_language, instance.target_language)
    /\ reqs' = [reqs EXCEPT ![p] = Idle]
    /\ UNCHANGED <<words, wp, lp, qp, today, accounts, tokens, now>>

SigStep(p) ==
    \/ ConcSave(p)
    \/ SigDispatch(p)
    \/ SigGetOrCreate(p)
    \/ ConcCount(p)
    \/ SigWrite(p)
    \/ SigRespond(p)

NextSignal ==
    \/ \E p \in SigProcs, u \in SigUsers, r \in wp, data \in ConcPatch :
           ConcPatchLoad(p, u, r, data)
    \/ \E p \in SigProcs, u \in SigUsers, data \in ConcCreate : ConcCreateGet(p, u, data)
    \/ \E p \in SigProcs, u \in SigUsers, r \in wp : SigWordsProgressDelete(p, u, r)
    \/ \E p \in SigProcs, u \in SigUsers, data \in SigLanguageProgressData :
           SigLanguageProgressPost(p, u, data)
    \/ \E p \in SigProcs, u \in SigUsers, r \in lp, data \in [level : SigLevels] :
           SigLanguageProgressPatch(p, u, r, data)
    \/ \E p \in SigProcs : ConcSave(p)
    \/ \E p \in SigProcs : SigDispatch(p)
    \/ \E p \in SigProcs : SigGetOrCreate(p)
    \/ \E p \in SigProcs : ConcCount(p)
    \/ \E p \in SigProcs : SigWrite(p)
    \/ \E p \in SigProcs : SigRecalculateFails(p)
    \/ \E p \in SigProcs : SigRespond(p)

\* a handler runs to its end once the save has called it
SpecSignal == Init /\ [][NextSignal]_vars /\ \A p \in SigProcs : WF_vars(SigStep(p))

\* --------------------------------------------------- the two-user machine
\* Two users issue every progress request, naming their own rows and the
\* other user's rows.
IsoStatus == {"new", "learned"}

IsoCreate == [word_id : {"w1"}, target_language_id : {"en"}, status : IsoStatus]

IsoPatch == [status : IsoStatus]

IsoLanguageProgressCreate == [language_id : {"en"}, level : {"A1", "B1"}]

IsoLanguageProgressPatch == [level : {"A1", "B1"}]

IsoQuiz == [language_id : {"en"}, total_questions : {2}, correct_answers : {1, 3}]

IsoKeys == {<<u, "w1", "en">> : u \in Users}

IsoBatches == [1..1 -> [id : IsoKeys, correct : BOOLEAN]]

NextIsolation ==
    \/ \E u \in Users, data \in IsoCreate : WordsProgressListCreateView_post(u, data)
    \/ \E u \in Users, r \in wp, data \in IsoPatch :
           WordsProgressDetailView_patch(u, r, data, TRUE)
    \/ \E u \in Users, r \in wp : WordsProgressDetailView_delete(u, r)
    \/ \E u \in Users, updates \in IsoBatches :
           WordsProgressBulkUpdateView_post(u, updates)
    \/ \E u \in Users, data \in IsoLanguageProgressCreate :
           LanguageProgressListCreateView_post(u, data)
    \/ \E u \in Users, r \in lp, data \in IsoLanguageProgressPatch :
           LanguageProgressDetailView_patch(u, r, data, TRUE)
    \/ \E u \in Users, r \in lp : LanguageProgressDetailView_delete(u, r)
    \/ \E u \in Users, data \in IsoQuiz : QuizProgressListCreateView_post(u, data)

SpecIsolation == Init /\ [][NextIsolation]_vars

\* ----------------------------------------------------- the create machine
\* Concurrent POST progress/words/ for one triple, get_or_create followed
\* through its statements: the SELECT, the INSERT, and the SELECT that
\* follows an IntegrityError.
CreateData == [word_id : {"w1"}, target_language_id : ConcLangs, status : ConcStatus]

\* get_or_create: the lookup
ConcCreateLookup(p, u, data) ==
    LET existing == {r \in wp : pk(r) = <<u, data.word_id, data.target_language_id>>}
    IN  /\ reqs[p].pc = "idle"
        /\ WordsProgressSerializer_is_valid(words, u, data, FALSE)
        /\ reqs' = [reqs EXCEPT ![p] =
               IF existing = {}
               THEN [Idle EXCEPT !.pc = "missed", !.op = "wp_create",
                                 !.created = TRUE, !.data = data,
                                 !.inst = {SetFields(WordsProgressDefaults(
                                               u, data.word_id,
                                               data.target_language_id), data)}]
               ELSE [Idle EXCEPT !.pc = "loaded", !.op = "wp_create",
                                 !.data = data,
                                 !.inst = {SetFields(r, data) : r \in existing}]]
        /\ UNCHANGED <<words, wp, lp, qp, today, last, accounts, tokens, now>>

\* get_or_create: the INSERT; on IntegrityError the row is fetched and the
\* caller goes on as for an existing row
ConcCreateInsert(p) ==
    /\ reqs[p].pc = "missed"
    /\ \E instance \in reqs[p].inst :
           LET inst1 == set_date_learned({}, instance, today)
               existing == {r \in wp : pk(r) = pk(instance)}
           IN  IF WordsProgressUniqueViolation(wp, {}, inst1)
               THEN /\ wp' = wp
                    /\ reqs' = [reqs EXCEPT
                           ![p].pc = "loaded",
                           ![p].inst = {SetFields(r, reqs[p].data) : r \in existing}]
               ELSE /\ wp' = wp \cup {inst1}
                    /\ reqs' = [reqs EXCEPT ![p].pc = "saved", ![p].inst = {inst1}]
    /\ UNCHANGED <<words, lp, qp, today, last, accounts, tokens, now>>

NextCreate ==
    \/ \E p \in Procs, u \in ConcUsers, data \in CreateData : ConcCreateLookup(p, u, data)
    \/ \E p \in Procs : ConcCreateInsert(p)
    \/ \E p \in Procs : ConcSave(p)
    \/ \E p \in Procs : ConcGetOrCreate(p)
    \/ \E p \in Procs : ConcCount(p)
    \/ \E p \in Procs : ConcWrite(p)

SpecCreate == Init /\ [][NextCreate]_vars

\* ------------------------------------------------- the statistics machine
\* Statistics requests on tables whose rows were saved today, 3 days ago and
\* 40 days ago, on each day of a range that crosses a month end, a year end
\* and every day of the week.
StatUsers == {"u2"}

StatDays == (MaxStatDay - 15)..MaxStatDay

StatPeriods == {"today", "week", "month", "year", "all", "Week", "ALL", "decade"}

StatLanguages == {None, "en", "de"}

StatOffsets == [w1 |-> 0, w2 |-> 3, w3 |-> 40]

\* the row of user u for word w, saved StatOffsets[w] days before day
StatRow(u, w, st, day) ==
    [WordsProgressDefaults(u, w, InitWords[w].language)
        EXCEPT !.status = st, !.date_learned = day - StatOffsets[w]]

\* the tables: each word of the catalog has no row or a row of some status
\* for the user, and another user has a row saved today
StatTables(day) ==
    {{StatRow("u2", w, f[w], day) : w \in {x \in WordIds : f[x] # None}}
         \cup {StatRow("u1", "w1", "learned", day)} :
     f \in [WordIds -> STATUS_CHOICES \cup {None}]}

\* the LanguageProgress rows the saves of the WordsProgress rows left
StatLanguageProgress(wpS) ==
    UNION {update_language_progress(wpS, {}, InitWords, r.user, r.target_language) :
               r \in wpS}

InitStats ==
    /\ words = InitWords
    /\ today \in StatDays
    /\ wp \in StatTables(today)
    /\ lp = StatLanguageProgress(wp)
    /\ qp = {}
    /\ reqs = [p \in Procs |-> Idle]
    /\ accounts = LoggedIn
    /\ tokens = {}
    /\ now = 0
    /\ last = Completed("init", None, TRUE, NoKey, None, None)

NextStats ==
    \/ \E u \in StatUsers, period \in StatPeriods, language \in StatLanguages :
           WordsLearnedStatsView_get(u, period, language)
    \/ \E u \in StatUsers : WordsLearnedTodayView_get(u)

SpecStats == InitStats /\ [][NextStats]_vars

\* ------------------------------------------------------------ SpecQuiz
\* Quiz results of two users in two languages and the statistics over them.
QuizData ==
    [language_id : {"en", "de", "fr"}, total_questions : {0, 10, 20},
     correct_answers : {8, 10, 25}]

QuizFilters == {None, "en", "de"}

NextQuiz ==
    \/ \E u \in Users, data \in QuizData : QuizProgressListCreateView_post(u, data)
    \/ \E u \in Users, language \in QuizFilters : QuizStatsView_get(u, language)

SpecQuiz == Init /\ [][NextQuiz]_vars

\* ---------------------------------------------------------- SpecStatus
\* The status of WordsProgress rows under requests that carry a status, one of
\* the choices or not, through create, update and bulk review.
StatusWords == {"w1", "w2"}

StatusValues == STATUS_CHOICES \cup {"done"}

StatusCreate ==
    [word_id : StatusWords, target_language_id : {"en"}]
    \cup [word_id : StatusWords, target_language_id : {"en"}, status : StatusValues]

StatusPatch == [status : StatusValues]

StatusEntries ==
    [id : {<<"u1", w, "en">> : w \in StatusWords}, correct : {TRUE},
     status : {"mastered", "done"}]

StatusBatches == [1..1 -> StatusEntries]

NextStatus ==
    \/ \E data \in StatusCreate : WordsProgressListCreateView_post("u1", data)
    \/ \E r \in wp, data \in StatusPatch :
           WordsProgressDetailView_patch("u1", r, data, TRUE)
    \/ \E r \in wp : WordsProgressDetailView_delete("u1", r)
    \/ \E updates \in StatusBatches : WordsProgressBulkUpdateView_post("u1", updates)
    \/ Tick

SpecStatus == Init /\ [][NextStatus]_vars

\* ------------------------------------------------------ SpecActivation
\* Registration, resent tokens, activation requests and the passing of time.
ActivationTokens == 1..(MaxTokens + 1)

InitActivation ==
    /\ words = InitWords
    /\ wp = {}
    /\ lp = {}
    /\ qp = {}
    /\ today = 0
    /\ reqs = [p \in Procs |-> Idle]
    /\ accounts = [u \in {} |-> [is_active |-> FALSE, is_email_verified |-> FALSE]]
    /\ tokens = {}
    /\ now = 0
    /\ last = Completed("init", None, TRUE, NoKey, None, None)

NextActivation ==
    \/ \E u \in Users : UserRegistrationView_post(u)
    \/ \E u \in Users : ResendActivationView_post(u)
    \/ \E token \in ActivationTokens : activate_email(token)
    \/ ClockTick

SpecActivation == InitActivation /\ [][NextActivation]_vars

\* ------------------------------------------------------------ SpecBulk
\* Two workers, each serving a bulk update of one entry: the row is loaded,
\* changed in memory and saved in separate statements, with no lock and no
\* transaction around them.
BulkCreate ==
    [word_id : {"w1"}, target_language_id : {"en"},
     review_count : RevCounts, correct_count : RevCounts]
    \cup [word_id : {"w1"}, target_language_id : {"en"}, status : {"learning"}]

BulkEntries == [id : {<<"u1", "w1", "en">>}, correct : BOOLEAN]

\* WordsProgress.objects.get(id=progress_id, user=request.user)
ConcBulkGet(p, u, update_data) ==
    LET found == {r \in wp : pk(r) = update_data.id /\ r.user = u}
    IN  /\ reqs[p].pc = "idle"
        /\ \A r \in found : r.review_count <= MaxCount
        /\ reqs' = [reqs EXCEPT ![p] =
                       [Idle EXCEPT !.pc = IF found = {} THEN "bulk_done"
                                           ELSE "bulk_loaded",
                                    !.op = "bulk_update",
                                    !.failed = (found = {}),
                                    !.inst = found,
                                    !.data = update_data]]
        /\ UNCHANGED <<words, wp, lp, qp, today, last, accounts, tokens, now>>

\* the rest of the entry's turn: progress.word.text, the increments in
\* memory, progress.save() and its signals; an exception ends the turn
ConcBulkSave(p) ==
    /\ reqs[p].pc = "bulk_loaded"
    /\ \E progress \in reqs[p].inst :
           LET update_data == reqs[p].data
               p1 == [progress EXCEPT
                         !.review_count = @ + 1,
                         !.correct_count = IF Get(update_data, "correct", FALSE)
                                           THEN @ + 1 ELSE @,
                         !.status = Get(update_data, "status", @)]
               p2 == IF p1.status \in {"learned", "mastered"} /\ p1.date_learned = NoDate
                     THEN [p1 EXCEPT !.date_learned = today]
                     ELSE p1
               olds == {r \in wp : pk(r) = pk(progress)}
               res == WordsProgress_save(wp, lp, words, olds, p2, today)
           IN  IF word_text_raises \/ ~ res.ok
               THEN /\ UNCHANGED <<wp, lp>>
                    /\ reqs' = [reqs EXCEPT ![p].pc = "bulk_done", ![p].failed = TRUE]
               ELSE /\ wp' = res.wp
                    /\ lp' = res.lp
                    /\ reqs' = [reqs EXCEPT ![p].pc = "bulk_done"]
    /\ UNCHANGED <<words, qp, today, last, accounts, tokens, now>>

\* the response of the bulk update
ConcBulkRespond(p) ==
    /\ reqs[p].pc = "bulk_done"
    /\ last' = [Completed("bulk_update", "u1", TRUE, reqs[p].data.id, None, None)
                   EXCEPT !.response =
                       [updated_count |-> IF reqs[p].failed THEN 0 ELSE 1,
                        total_requested |-> 1,
                        errors |-> IF reqs[p].failed THEN 1 ELSE 0]]
    /\ reqs' = [reqs EXCEPT ![p] = Idle]
    /\ UNCHANGED <<words, wp, lp, qp, today, accounts, tokens, now>>

\* the row is set up by a create while no bulk update is in flight
BulkSetUp(u, data) ==
    /\ \A p \in Procs : reqs[p].pc = "idle"
    /\ WordsProgressListCreateView_post(u, data)

NextBulk ==
    \/ \E data \in BulkCreate : BulkSetUp("u1", data)
    \/ \E p \in Procs, update_data \in BulkEntries : ConcBulkGet(p, "u1", update_data)
    \/ \E p \in Procs : ConcBulkSave(p)
    \/ \E p \in Procs : ConcBulkRespond(p)

SpecBulk == Init /\ [][NextBulk]_vars

\* ---------------------------------------------------------- SpecCaller
\* Creates of callers with different language settings, on a catalog whose
\* words are switched on and off.
CallerCreate ==
    [word_id : {"w1", "w3"}, target_language_id : {"en", "de", "fr"}]

NextCaller ==
    \/ \E u \in Callers, data \in CallerCreate : WordsProgressListCreateView_post(u, data)
    \/ \E w \in {"w1", "w3"}, data \in [active : BOOLEAN] :
           WordViewSet_partial_update(w, data)

SpecCaller == Init /\ [][NextCaller]_vars

\* --------------------------------------------------------------- claims
WordsProgressOps == {"wp_create", "wp_update", "wp_delete"}

\* C1: after a completed create, update or delete of a WordsProgress row, the
\* LanguageProgress row of that user for every language the row belonged to
\* before or after the operation has learned_words_count equal to the number
\* of the user's learned or mastered rows for that language.
C1_CountAfterWordsProgressWrite ==
    (last.op \in WordsProgressOps /\ last.ok) =>
        \A l \in {last.old_lang, last.lang} :
            \A r \in LPRows(lp, last.user, l) :
                r.learned_words_count = learned_mastered_count(wp, last.user, l)

\* the part of C1 the code keeps: the language the row belongs to afterwards
C1_CountOfCurrentLanguage ==
    (last.op \in WordsProgressOps /\ last.ok) =>
        \A r \in LPRows(lp, last.user, last.lang) :
            r.learned_words_count = learned_mastered_count(wp, last.user, last.lang)

\* round(min(100, cnt / total * 100), 2), in hundredths
ExpectedPercentage(cnt, total) ==
    IF total = 0 THEN 0
    ELSE IF cnt >= total THEN 10000
    ELSE round2(cnt, total)

\* C2: in every state every LanguageProgress row has learned_words equal to
\* round(min(100, learned_words_count / total * 100), 2), total being the
\* active words of the language eligible at the row's level, and 0.0 when
\* total is 0.
C2_LearnedWordsFormula ==
    \A r \in lp :
        r.learned_words =
            ExpectedPercentage(r.learned_words_count,
                               total_available_words(words, r.language, r.level))

\* C3: in every state every LanguageProgress.learned_words lies in
\* [0.00, 100.00].
C3_LearnedWordsInRange ==
    \A r \in lp : r.learned_words >= 0 /\ r.learned_words <= 10000

\* the requests that end in update_language_progress(last.user, last.lang)
RecalculatingOps == {"wp_create", "wp_update", "wp_delete", "lp_update"}

\* a request that changes no level and no language of the row it names and
\* runs the recalculation for (u, l)
OnlyRecalculates(u, l) ==
    /\ last'.op = "lp_update" /\ last'.ok
    /\ last'.user = u /\ last'.old_lang = l /\ last'.lang = l
    /\ \A r \in LPRows(lp, u, l) : \E r2 \in LPRows(lp', u, l) : r2.level = r.level

\* C9: a recalculation for (user, language) that directly follows a
\* recalculation for the same pair, with no mutation in between, leaves
\* learned_words and learned_words_count as the first one left them.
C9_RecalculateIdempotent ==
    [][(/\ last.op \in RecalculatingOps /\ last.ok
        /\ OnlyRecalculates(last.user, last.lang)) => lp' = lp]_vars

C9_Witness ==
    /\ last.op = "lp_update" /\ last.ok /\ last.old_lang = last.lang
    /\ \E r \in LPRows(lp, last.user, last.lang) :
           r.learned_words_count = 2 /\ r.learned_words = 10000

CorrectEntries(updates, k) ==
    {i \in EntriesFor(updates, k) : Get(updates[i], "correct", FALSE)}

\* C5: every bulk update adds to review_count of each row of the caller the
\* number of entries that name the row, and to correct_count the number of
\* those with correct = true, so that N entries applied to a row that starts
\* at 0 / 0 leave review_count = N and correct_count = the correct ones.
C5_BulkReviewCounts ==
    [][\A u \in RevUsers, updates \in RevBatches :
          WordsProgressBulkUpdateView_post(u, updates) =>
              \A r \in wp : r.user = u =>
                  \E r2 \in wp' :
                      /\ pk(r2) = pk(r)
                      /\ r2.review_count =
                             r.review_count + Cardinality(EntriesFor(updates, pk(r)))
                      /\ r2.correct_count =
                             r.correct_count + Cardinality(CorrectEntries(updates, pk(r)))]_vars

StoredCount(k, field) ==
    IF \E r \in wp : pk(r) = k
    THEN (CHOOSE r \in wp : pk(r) = k)[field]
    ELSE 0

\* C6: one review {word_id, target_language_id, correct} submitted through the
\* single-record operation adds exactly 1 to the row's review_count, and 1 to
\* its correct_count if and only if correct is true.
C6_SingleReviewCounts ==
    [][\A u \in RevUsers, data \in {d \in RevCreate : Has(d, "correct")} :
          (WordsProgressListCreateView_post(u, data) /\ last'.ok) =>
              LET k == <<u, data.word_id, data.target_language_id>>
              IN  \E r2 \in wp' :
                      /\ pk(r2) = k
                      /\ r2.review_count = StoredCount(k, "review_count") + 1
                      /\ r2.correct_count =
                             StoredCount(k, "correct_count")
                                 + (IF data.correct THEN 1 ELSE 0)]_vars

\* C7: in every state every WordsProgress row has correct_count <= review_count.
C7_CorrectAtMostReviews ==
    \A r \in wp : r.correct_count <= r.review_count

C8_SavedRowDated ==
    (last.op \in {"wp_create", "wp_update"} /\ last.ok) =>
        \A r \in wp : pk(r) = last.key => r.date_learned = today

C10_LevelMonotone ==
    \A L1 \in LEVEL_CHOICES, L2 \in LEVEL_CHOICES :
        LevelRank[L1] <= LevelRank[L2] =>
            /\ DIFFICULTY_TO_LEVEL_MAP(L1) \subseteq DIFFICULTY_TO_LEVEL_MAP(L2)
            /\ \A l \in Langs :
                   total_available_words(words, l, L1)
                       <= total_available_words(words, l, L2)

C10_Witness ==
    /\ last.op = "lp_update" /\ last.ok
    /\ \E r \in lp :
           /\ r.language = "en" /\ r.level = "B1" /\ r.learned_words = 5000
           /\ total_available_words(words, "en", "A1") = 1
           /\ total_available_words(words, "en", "B1") = 2

Quiescent == \A p \in Procs : reqs[p].pc = "idle"

\* C4: when concurrent review submissions of one user and language have all
\* finished, learned_words_count equals the number of the user's learned or
\* mastered rows for the language, for every interleaving.
C4_CountAfterConcurrentReviews ==
    Quiescent =>
        \A r \in lp :
            r.learned_words_count = learned_mastered_count(wp, r.user, r.language)

\* the LanguageProgress row of (u, l) holds, after the step, the values the
\* recalculation computes from the WordsProgress rows and the row's level
RecalculatedAfter(u, l) ==
    \A r \in LPRows(lp', u, l) :
        /\ r.learned_words_count = learned_mastered_count(wp', u, l)
        /\ r.learned_words =
               learned_percentage(learned_mastered_count(wp', u, l),
                                  total_available_words(words', l, r.level))

\* C11: a request that sets the level of a user's LanguageProgress, whether it
\* creates the row or updates an existing one, leaves learned_words and
\* learned_words_count at the values computed for the new level from the
\* current WordsProgress rows.
C11_LevelChangeRecalculates ==
    [][\A u \in AggUsers :
          /\ \A data \in {d \in AggLanguageProgressCreate : Has(d, "level")} :
                 (LanguageProgressListCreateView_post(u, data) /\ last'.ok) =>
                     RecalculatedAfter(u, data.language_id)
          /\ \A r \in lp, data \in {d \in AggLanguageProgressPatch : Has(d, "level")} :
                 (LanguageProgressDetailView_patch(u, r, data, TRUE) /\ last'.ok) =>
                     RecalculatedAfter(u, r.language)]_vars

C12_RunsOnce ==
    \A p \in SigProcs :
        /\ reqs[p].runs <= 1
        /\ (reqs[p].pc = "respond" /\ reqs[p].op \in RecalculatingOps) =>
               reqs[p].runs = 1

\* C12: the recalculation's own write of learned_words and
\* learned_words_count starts no further recalculation: a WordsProgress save
\* or delete and an update of an existing LanguageProgress run the
\* recalculation exactly once, and the request then ends.
C12_NoRetrigger ==
    /\ []C12_RunsOnce
    /\ \A p \in SigProcs : (reqs[p].pc # "idle") ~> (reqs[p].pc = "idle")

C12_Witness ==
    \E p \in SigProcs :
        /\ reqs[p].pc = "respond" /\ reqs[p].op = "lp_update"
        /\ reqs[p].runs = 1 /\ ~reqs[p].failed
        /\ \E r \in lp : r.level = "B1" /\ r.learned_words = 5000

C13_WriteKept ==
    \A p \in SigProcs :
        (reqs[p].failed /\ reqs[p].op \in WordsProgressOps) =>
            /\ reqs[p].pc = "respond"
            /\ \A i \in reqs[p].inst :
                   IF reqs[p].op = "wp_delete"
                   THEN \A r \in wp : pk(r) # pk(i)
                   ELSE i \in wp

ValidEntries(updates, u) ==
    {i \in 1..Len(updates) :
        /\ Has(updates[i], "id")
        /\ \E r \in wp : pk(r) = updates[i].id /\ r.user = u}

\* C14: a bulk update that mixes entries naming rows of the caller with
\* entries naming no row (or no id) applies every valid entry: updated_count
\* is the number of valid entries, total_requested the length of the list,
\* and errors holds one entry for each failed entry.
C14_BulkPartialFailure ==
    [][\A u \in RevUsers, updates \in RevBatches :
          (/\ WordsProgressBulkUpdateView_post(u, updates)
           /\ ValidEntries(updates, u) # {}
           /\ ValidEntries(updates, u) # 1..Len(updates)) =>
              /\ last'.response.updated_count = Cardinality(ValidEntries(updates, u))
              /\ last'.response.total_requested = Len(updates)
              /\ last'.response.errors =
                     Len(updates) - Cardinality(ValidEntries(updates, u))]_vars

\* the rows user B owns
OwnedBy(B) ==
    <<{r \in wp : r.user = B}, {r \in lp : r.user = B}, {r \in qp : r.user = B}>>

\* C15: no progress request of a user changes a WordsProgress,
\* LanguageProgress or QuizProgress row of another user, and a request that
\* names another user's row by id is answered as not found and changes
\* nothing.
C15_UserIsolation ==
    [][/\ \A B \in Users : last'.user # B => OwnedBy(B)' = OwnedBy(B)
       /\ \A A \in Users :
              /\ \A r \in {x \in wp : x.user # A} :
                     /\ \A data \in IsoPatch :
                            WordsProgressDetailView_patch(A, r, data, TRUE) =>
                                (last' = Rejected /\ wp' = wp /\ lp' = lp)
                     /\ WordsProgressDetailView_delete(A, r) =>
                            (last' = Rejected /\ wp' = wp /\ lp' = lp)
                     /\ \A updates \in {b \in IsoBatches : b[1].id = pk(r)} :
                            WordsProgressBulkUpdateView_post(A, updates) =>
                                (last'.response.updated_count = 0 /\ wp' = wp /\ lp' = lp)
              /\ \A r \in {x \in lp : x.user # A} :
                     /\ \A data \in IsoLanguageProgressPatch :
                            LanguageProgressDetailView_patch(A, r, data, TRUE) =>
                                (last' = Rejected /\ lp' = lp)
                     /\ LanguageProgressDetailView_delete(A, r) =>
                            (last' = Rejected /\ lp' = lp)]_vars

C15_Witness ==
    /\ last = Rejected
    /\ \E r \in wp : r.user = "u1" /\ r.status = "learned"
    /\ \E r \in wp : r.user = "u2" /\ r.status = "new"
    /\ \E r \in lp : r.user = "u1" /\ r.learned_words_count = 1
    /\ \E r \in lp : r.user = "u2" /\ r.level = "B1" /\ r.learned_words_count = 0
    /\ \E r \in qp : r.user = "u1"
    /\ \E r \in qp : r.user = "u2"

\* C16: a WordsProgress create for (user, word, target_language) is rejected,
\* and no WordsProgress or LanguageProgress row is created or changed, when
\* the word's language differs from target_language, the word is inactive,
\* or the target language is disabled.
C16_InvalidReferenceRejected ==
    [][\A u \in CatUsers, data \in CatWordsProgressCreate :
          (/\ WordsProgressListCreateView_post(u, data)
           /\ \/ words[data.word_id].language # data.target_language_id
              \/ ~ words[data.word_id].active
              \/ ~ LanguageEnabled[data.target_language_id]) =>
              (last' = Rejected /\ wp' = wp /\ lp' = lp)]_vars

C16_Witness ==
    /\ last = Rejected
    /\ ~ words["w1"].active
    /\ \E r \in wp : r.word = "w1" /\ r.status = "learned"
    /\ \E r \in lp : r.learned_words_count = 1

\* C17: in every state every WordsProgress row has target_language equal to
\* the language of its word, also after updates that carry only word_id or
\* only target_language_id.
C17_TargetLanguageIsWordLanguage ==
    \A r \in wp : words[r.word].language = r.target_language

\* C18: after any sequence of WordsProgress create submissions, repeated and
\* concurrent ones for the same triple included, at most one row exists per
\* (user, word, target_language): a submission for a triple that has a row
\* updates that row.
C18_OneRowPerTriple ==
    \A r1 \in wp, r2 \in wp : pk(r1) = pk(r2) => r1 = r2

C18_Witness ==
    /\ Cardinality(wp) = 1
    /\ \E p \in Procs, q \in Procs :
           /\ p # q
           /\ reqs[p].pc = "loaded" /\ reqs[p].op = "wp_create" /\ reqs[p].created
           /\ reqs[q].op = "wp_create" /\ reqs[q].pc = "saved"
           /\ \E i \in reqs[p].inst, j \in reqs[q].inst :
                  pk(i) = pk(j) /\ i.status # j.status

Presets == {"today", "week", "month", "year", "all"}

\* the date d lies in the window of preset P that ends on day t
InPreset(P, d, t) ==
    /\ d # NoDate /\ d <= t
    /\ CASE P = "today" -> d = t
         [] P = "week" -> t - d < 7 /\ weekday(d) <= weekday(t)
         [] P = "month" -> date_year(d) = date_year(t) /\ date_month(d) = date_month(t)
         [] P = "year" -> date_year(d) = date_year(t)
         [] P = "all" -> TRUE

\* the rows of user u with status st in the window of preset P, of the
\* language when one is passed
RowsInPreset(u, st, P, language) ==
    {r \in wp : /\ r.user = u /\ r.status = st
                /\ InPreset(P, r.date_learned, today)
                /\ language # None => r.target_language = language}

ThreeLearnedRows ==
    /\ last.op = "stats" /\ last.lang = None
    /\ {r \in wp : r.user = last.user} =
           {StatRow(last.user, w, "learned", today) : w \in WordIds}

\* C20: for a user whose only rows are three learned rows with date_learned
\* today, today - 3 and today - 40, on any date, period=today returns
\* words_learned = 1, period=month at least 2, period=all 3.
C20_WindowScenario ==
    ThreeLearnedRows =>
        /\ last.response.period = "today" => last.response.words_learned = 1
        /\ last.response.period = "month" => last.response.words_learned >= 2
        /\ last.response.period = "all" => last.response.words_learned = 3

\* C20 as the code has it: the row of 3 days ago is in the month's window
\* only from the 4th of the month on
C20_WindowScenarioByDay ==
    ThreeLearnedRows =>
        /\ last.response.period = "today" => last.response.words_learned = 1
        /\ last.response.period = "month" =>
               /\ last.response.words_learned >= 1
               /\ date_day(today) >= 4 => last.response.words_learned >= 2
        /\ last.response.period = "all" => last.response.words_learned = 3

C20_Witness ==
    /\ ThreeLearnedRows
    /\ last.response.period = "month"
    /\ date_day(today) = 2
    /\ last.response.words_learned = 1

\* C21: the quiz statistics of a user hold exactly one entry per language in
\* which the user has a QuizProgress row (only the requested language when a
\* filter is given); the entry's quiz_count is the number of those rows, its
\* total_questions their sum and its average_accuracy the sum of correct
\* answers over the sum of questions, times 100, rounded to 2 decimals.
QuizRowsOf(u, l) == {r \in qp : r.user = u /\ r.language = l}

C21_QuizStats ==
    last.op = "quiz_stats" =>
        LET entries == last.response.quiz_stats
            languages == {l \in Langs :
                            /\ QuizRowsOf(last.user, l) # {}
                            /\ last.lang # None => l = last.lang}
        IN  /\ {e.language : e \in entries} = languages
            /\ \A e, f \in entries : e.language = f.language => e = f
            /\ \A e \in entries :
                LET rows == QuizRowsOf(last.user, e.language)
                IN  /\ e.quiz_count = Cardinality(rows)
                    /\ e.total_questions = Sum(rows, "total_questions")
                    /\ e.average_accuracy =
                         round2(Sum(rows, "correct_answers"),
                                Sum(rows, "total_questions"))

\* the example of the claim: rows {10, 8} and {20, 10} give 30, 60.00 and 2
C21_Witness ==
    /\ last.op = "quiz_stats"
    /\ \E r1, r2 \in qp :
        /\ r1.user = last.user /\ r2.user = last.user
        /\ r1.language = "en" /\ r2.language = "en"
        /\ r1.total_questions = 10 /\ r1.correct_answers = 8
        /\ r2.total_questions = 20 /\ r2.correct_answers = 10
    /\ [language |-> "en", total_questions |-> 30, average_accuracy |-> 6000,
        quiz_count |-> 2] \in last.response.quiz_stats

\* C22: every stored QuizProgress row has total_questions > 0 and
\* 0 <= correct_answers <= total_questions, and a create whose data violate
\* this is rejected and stores no row.
QuizRowValid(r) ==
    /\ r.total_questions > 0
    /\ 0 <= r.correct_answers
    /\ r.correct_answers <= r.total_questions

C22_QuizRowsValid ==
    [][/\ \A r \in qp' : QuizRowValid(r)
       /\ \A u \in Users, data \in QuizData :
            (QuizProgressListCreateView_post(u, data) /\ ~ QuizRowValid(data))
                => (qp' = qp /\ last' = Rejected)]_vars

C22_Witness ==
    /\ last = Rejected
    /\ \E r \in qp : r.correct_answers = r.total_questions

\* C23: no create or update of a LanguageProgress row through the API makes
\* the stored learned_words or learned_words_count hold a value the consumer
\* supplied: after such a request the two fields hold what the recalculation
\* produces for the row, or the model defaults when no recalculation has run.
C23_ProgressNotSupplied ==
    (last.op \in {"lp_create", "lp_update"} /\ last.ok) =>
        \A r \in LPRows(lp, last.user, last.lang) :
            LET cnt == learned_mastered_count(wp, r.user, r.language)
                pct == learned_percentage(cnt,
                           total_available_words(words, r.language, r.level))
            IN  \/ r.learned_words = pct /\ r.learned_words_count = cnt
                \/ r.learned_words = LanguageProgressDefaults(r.user, r.language).learned_words
                   /\ r.learned_words_count =
                        LanguageProgressDefaults(r.user, r.language).learned_words_count

\* C24: review_count and correct_count of a WordsProgress row never decrease
\* from one state to the next, under any API operation on the row (a create on
\* an existing row, an update, a bulk review entry).
C24_CountersNeverDecrease ==
    [][\A r \in wp, r2 \in wp' :
          pk(r) = pk(r2) =>
              /\ r2.review_count >= r.review_count
              /\ r2.correct_count >= r.correct_count]_vars

\* C25: in every state every WordsProgress.status is one of new, learning,
\* learned, mastered, whichever operation set it (create, update, or a bulk
\* review entry carrying a status), and a row created without a status has
\* status new.
C25_StatusIsAChoice ==
    [][/\ \A r \in wp' : r.status \in {"new", "learning", "learned", "mastered"}
       /\ \A data \in {d \in StatusCreate : ~ Has(d, "status")} :
            (/\ WordsProgressListCreateView_post("u1", data)
             /\ last'.ok
             /\ ~ \E r \in wp : pk(r) = last'.key)
                => \E r2 \in wp' : pk(r2) = last'.key /\ r2.status = "new"]_vars

\* a request was turned down while a row created without a status and a row
\* whose status an update set are stored
C25_Witness ==
    /\ last = Rejected
    /\ \E r \in wp : r.status = "new"
    /\ \E r \in wp : r.status = "mastered"

\* C26: the recalculation creates the LanguageProgress row of the pair with
\* level A1 when none exists, and never a second row for a pair; when the row
\* exists it leaves level, learned_phrases and learned_phrases_count unchanged
\* and writes only learned_words and learned_words_count.
C26_RecalculationFrame ==
    [][\A p \in SigProcs : \A instance \in reqs[p].inst :
          LET old == LPRows(lp, instance.user, instance.target_language)
              new == LPRows(lp', instance.user, instance.target_language)
          IN  /\ SigGetOrCreate(p) =>
                    /\ Cardinality(new) = 1
                    /\ IF old = {}
                       THEN /\ lp' = lp \cup new
                            /\ \A r \in new : r.level = "A1"
                       ELSE lp' = lp
              /\ SigWrite(p) =>
                    /\ Cardinality(new) = 1
                    /\ lp' \ new = lp \ old
                    /\ \A r \in old, r2 \in new :
                           r2 = [r EXCEPT
                                    !.learned_words = r2.learned_words,
                                    !.learned_words_count = r2.learned_words_count]]_vars

\* the recalculation has written a count to a row whose level and
\* learned_phrases a consumer had set
C26_Witness ==
    \E p \in SigProcs :
        /\ reqs[p].pc = "flagged_signal"
        /\ \E instance \in reqs[p].inst :
               \E r \in LPRows(lp, instance.user, instance.target_language) :
                   /\ r.level = "B1"
                   /\ r.learned_phrases = 2500
                   /\ r.learned_words_count >= 1

\* C27: an activation request activates the token's user (is_active and
\* is_email_verified become true, the token becomes used) only when the token
\* exists, is unused and is not expired; an unknown, expired or used token is
\* rejected and changes neither user nor token, so each token activates at
\* most once.
Activatable(token) ==
    \E a \in tokens :
        /\ a.token = token
        /\ ~ a.is_used
        /\ now <= a.created_at + 24

C28_ConcurrentBulkCounts ==
    (\A p \in Procs : reqs[p].pc = "bulk_done" /\ reqs[p].inst # {}) =>
        \A r \in wp, a \in reqs["p1"].inst, b \in reqs["p2"].inst :
            (pk(r) = pk(a) /\ pk(r) = pk(b)) =>
                /\ r.review_count = Min(a.review_count, b.review_count) + 2
                /\ r.correct_count =
                       Min(a.correct_count, b.correct_count)
                           + Cardinality({p \in Procs : reqs[p].data.correct})

\* C29: in every state and for every user, the learned, mastered and total
\* counts of the words-learned-today endpoint equal words_learned,
\* words_mastered and total_words of the words-learned statistics endpoint
\* with period=today and no language filter.
C29_TodayEqualsStatsToday ==
    \A u \in Users :
        LET a == WordsLearnedTodayView_response(wp, today, u)
            b == WordsLearnedStatsView_response(wp, today, u, "today", None)
        IN  /\ a.words_learned_today = b.words_learned
            /\ a.words_mastered_today = b.words_mastered
            /\ a.total_learned_today = b.total_words

\* the today endpoint has answered with one word for a user who also has a
\* learned row of an earlier day and a row of today that is not learned
C29_Witness ==
    /\ last.op = "today"
    /\ last.response.total_learned_today = 1
    /\ \E r \in wp :
        /\ r.user = last.user /\ r.date_learned < today
        /\ r.status \in {"learned", "mastered"}
    /\ \E r \in wp : r.user # last.user /\ r.date_learned = today /\ r.status = "learned"

\* C30: a WordsProgress create succeeds (creates the row or returns the
\* existing one) for every caller whenever the word is active, the target
\* language is enabled and the target language equals the word's language; no
\* other attribute of the caller or the catalog causes a rejection.
CatalogAccepts(data) ==
    /\ words[data.word_id].active
    /\ LanguageEnabled[data.target_language_id]
    /\ words[data.word_id].language = data.target_language_id

CreateSucceeds(u, data) ==
    /\ last'.op = "wp_create" /\ last'.ok
    /\ \E r \in wp' : pk(r) = <<u, data.word_id, data.target_language_id>>

====
